---- MODULE Spec2Model ----
(***************************************************************************)
(* Referential bookkeeping of the blog API: users, posts and categories    *)
(* kept in three document collections, with the back-reference lists       *)
(* (User.posts, Category.posts) maintained by the services.                *)
(*                                                                         *)
(* Every service method is a request that runs in a slot.  A request       *)
(* advances one store operation (one await) at a time; an updateMany or    *)
(* deleteMany advances one document at a time, since the store is atomic   *)
(* per document only.  Synchronous code between two awaits belongs to the  *)
(* step of the await that precedes it.                                     *)
(***************************************************************************)
EXTENDS Integers, Sequences, FiniteSets, TLC

\* ---------------------------------------------------------------- bounds
\* Documents of each kind ever created, titles, the length of a categoryIds
\* list, overlapping requests admitted, and documents created in all.
MaxUsers == 2
MaxCats == 3
MaxPosts == 2
MaxTitles == 2
MaxCatIds == 2
MaxReqs == 2
MaxDocs == 5

\* ------------------------------------------------------------ identifiers
\* A well-formed ObjectId is a positive number; Malformed is a string that
\* isValidObjectId rejects; Absent is an optional DTO field left out.
Malformed == 0
Absent == 0 - 1

Slots == {1, 2}

isValidObjectId(x) == x >= 1

UserInputs == Malformed .. MaxUsers
CatInputs == Malformed .. MaxCats
PostInputs == Malformed .. MaxPosts
Titles == 1 .. MaxTitles

\* E-mail addresses and category names, after trim: as many as there can be
\* Users and Categories.
Emails == 1 .. MaxUsers
Names == 1 .. MaxCats

RECURSIVE SeqsUpTo(_, _)
SeqsUpTo(S, n) ==
  IF n = 0 THEN {<<>>}
  ELSE LET shorter == SeqsUpTo(S, n - 1)
       IN shorter \cup {Append(s, x) : s \in {t \in shorter : Len(t) = n - 1}, x \in S}

\* The categoryIds a service method may receive: empty, with an identifier
\* repeated, malformed or of no Category, in any order.
CatIdSeqs == SeqsUpTo(CatInputs, MaxCatIds)

\* ------------------------------------------------------ array operators
Range(s) == {s[i] : i \in 1 .. Len(s)}

Count(s, x) == Cardinality({i \in 1 .. Len(s) : s[i] = x})

\* $push
Push(s, x) == Append(s, x)

\* $addToSet
AddToSet(s, x) == IF x \in Range(s) THEN s ELSE Append(s, x)

\* $pull of one value
Pull(s, x) == SelectSeq(s, LAMBDA y : y # x)

\* $pull with { $in: X }
PullIn(s, X) == SelectSeq(s, LAMBDA y : y \notin X)

\* ------------------------------------------------------------------ state
VARIABLES
  users,       \* live User documents:     id -> [posts, email]
  categories,  \* live Category documents: id -> [posts, name]
  posts,       \* live Post documents:     id -> [title, authorId, categories, viewCount]
  nextUser,    \* the next fresh User id
  nextCat,     \* the next fresh Category id
  nextPost,    \* the next fresh Post id
  req,         \* per slot: the request it runs, its position and its locals
  serial,      \* TRUE: requests are executed one at a time
  started,     \* requests admitted so far when they may overlap
  returned     \* history: per Post id, the findOne calls that have returned the Post

store == <<users, categories, posts, nextUser, nextCat, nextPost>>
vars == <<users, categories, posts, nextUser, nextCat, nextPost, req, serial, started, returned>>

NoPost == [title |-> Absent, authorId |-> Absent, categories |-> <<>>, viewCount |-> 0]

Idle ==
  [op |-> "none", pc |-> "idle", id |-> Absent, authorId |-> Absent,
   hasCategoryIds |-> FALSE, categoryIds |-> <<>>, title |-> Absent,
   existing |-> NoPost, postIds |-> {}, todo |-> {}, err |-> "none",
   failedAt |-> "none", email |-> Absent, name |-> Absent]

\* A request that threw: only the operation and the exception are kept.
Thrown(op, exc) == [Idle EXCEPT !.op = op, !.pc = "error", !.err = exc]

Quiescent(r) == req[r].pc \in {"idle", "done", "error"}

At(r, op, pc) == req[r].op = op /\ req[r].pc = pc

\* Whether slot r may take a new request.
Admit(r) ==
  /\ req[r].pc = "idle"
  /\ IF serial THEN r = 1 ELSE started < MaxReqs

Admitted == started' = IF serial THEN started ELSE started + 1

\* Requests under way that have not yet drawn the id of the document they create.
Creating(op) ==
  Cardinality({s \in Slots : req[s].op = op /\ req[s].pc \in {"findOne", "save", "findAuthor", "findCategories"}
                              /\ req[s].id = Absent})

\* Documents created so far, with the ids that requests under way will draw.
DocsDrawn ==
  (nextUser - 1) + (nextCat - 1) + (nextPost - 1)
    + Creating("createUser") + Creating("createCategory") + Creating("createPost")

Insert(f, k, v) == [x \in DOMAIN f \cup {k} |-> IF x = k THEN v ELSE f[x]]

Delete(f, k) == [x \in DOMAIN f \ {k} |-> f[x]]

\* ----------------------------------------------------------------- Init
\* No findOne call has returned a Post.
NoneReturned == [p \in 1 .. MaxPosts |-> 0]

Init ==
  /\ users = <<>>
  /\ categories = <<>>
  /\ posts = <<>>
  /\ nextUser = 1
  /\ nextCat = 1
  /\ nextPost = 1
  /\ req = [r \in Slots |-> Idle]
  /\ serial = TRUE
  /\ started = 0
  /\ returned = NoneReturned

\* ------------------------------------------------- UsersService.create
\* The unique index on User.email (unique: true in the schema): whether a
\* User other than `self` has the address.
EmailTaken(email, self) == \E u \in DOMAIN users \ {self} : users[u].email = email

UsersCreateStart(r, email) ==
  /\ Admit(r)
  /\ Admitted
  /\ nextUser + Creating("createUser") <= MaxUsers
  /\ DocsDrawn < MaxDocs
  /\ req' = [req EXCEPT ![r] = [Idle EXCEPT !.op = "createUser", !.pc = "findOne", !.email = email]]
  /\ UNCHANGED <<store, serial, returned>>

\* Lines 170-176: findOne({ email }); the Error thrown when a User is found
\* is caught at line 187 and InternalServerError is thrown in its place.
UsersCreateFindOne(r) ==
  /\ At(r, "createUser", "findOne")
  /\ req' = [req EXCEPT ![r] =
       IF EmailTaken(req[r].email, Absent) THEN Thrown("createUser", "InternalServerError")
       ELSE [@ EXCEPT !.pc = "save"]]
  /\ UNCHANGED <<store, serial, started, returned>>

\* Faulty variant of the save: the schema without unique: true, so the insert
\* is never refused.
UsersCreateSaveNoIndex(r) ==
  /\ At(r, "createUser", "save")
  /\ users' = Insert(users, nextUser, [posts |-> <<>>, email |-> req[r].email])
  /\ nextUser' = nextUser + 1
  /\ req' = [req EXCEPT ![r] = [@ EXCEPT !.pc = "done", !.id = nextUser]]
  /\ UNCHANGED <<categories, posts, nextCat, nextPost, serial, started, returned>>

\* Lines 177-189: newUser.save(); the index refuses an address another User
\* has, and that error too is caught at line 187.
UsersCreateSave(r) ==
  /\ At(r, "createUser", "save")
  /\ IF EmailTaken(req[r].email, Absent)
     THEN /\ req' = [req EXCEPT ![r] = Thrown("createUser", "InternalServerError")]
          /\ UNCHANGED <<users, nextUser>>
     ELSE /\ users' = Insert(users, nextUser, [posts |-> <<>>, email |-> req[r].email])
          /\ nextUser' = nextUser + 1
          /\ req' = [req EXCEPT ![r] = [@ EXCEPT !.pc = "done", !.id = nextUser]]
  /\ UNCHANGED <<categories, posts, nextCat, nextPost, serial, started, returned>>

\* -------------------------------------------- CategoriesService.create
\* The unique index on Category.name.
NameTaken(name, self) == \E c \in DOMAIN categories \ {self} : categories[c].name = name

CategoriesCreateStart(r, name) ==
  /\ Admit(r)
  /\ Admitted
  /\ nextCat + Creating("createCategory") <= MaxCats
  /\ DocsDrawn < MaxDocs
  /\ req' = [req EXCEPT ![r] = [Idle EXCEPT !.op = "createCategory", !.pc = "findOne", !.name = name]]
  /\ UNCHANGED <<store, serial, returned>>

\* Lines 24-29: findOne({ name }); the Conflict thrown when a Category is
\* found is caught at line 33 and InternalServerError is thrown in its place.
CategoriesCreateFindOne(r) ==
  /\ At(r, "createCategory", "findOne")
  /\ req' = [req EXCEPT ![r] =
       IF NameTaken(req[r].name, Absent) THEN Thrown("createCategory", "InternalServerError")
       ELSE [@ EXCEPT !.pc = "save"]]
  /\ UNCHANGED <<store, serial, started, returned>>

\* Lines 31-35: newCategory.save(), which the index may refuse.
CategoriesCreateSave(r) ==
  /\ At(r, "createCategory", "save")
  /\ IF NameTaken(req[r].name, Absent)
     THEN /\ req' = [req EXCEPT ![r] = Thrown("createCategory", "InternalServerError")]
          /\ UNCHANGED <<categories, nextCat>>
     ELSE /\ categories' = Insert(categories, nextCat, [posts |-> <<>>, name |-> req[r].name])
          /\ nextCat' = nextCat + 1
          /\ req' = [req EXCEPT ![r] = [@ EXCEPT !.pc = "done", !.id = nextCat]]
  /\ UNCHANGED <<users, posts, nextUser, nextPost, serial, started, returned>>

\* --------------------------------------------------- PostsService.create
\* Requests that have passed validation and not yet taken their Post id.
CreatesBeforeId == Creating("createPost")

\* The categories a find({ _id: { $in: ids } }) returns.
FindCategories(ids) == Range(ids) \cap DOMAIN categories

\* Faulty variant of lines 27-28: the test of the length left out, so only an
\* absent list is refused.
CreateValidationAbsentOnly(authorId, hasCategoryIds, categoryIds) ==
  IF ~hasCategoryIds THEN "BadRequest: at least one category"
  ELSE IF authorId = Absent THEN "BadRequest: author required"
  ELSE IF ~isValidObjectId(authorId) THEN "BadRequest: invalid author"
  ELSE IF \E i \in 1 .. Len(categoryIds) : ~isValidObjectId(categoryIds[i])
       THEN "BadRequest: invalid category"
  ELSE "ok"

\* Lines 24-41: the checks made before the first store access.
CreateValidation(authorId, hasCategoryIds, categoryIds) ==
  IF ~hasCategoryIds \/ Len(categoryIds) = 0 THEN "BadRequest: at least one category"
  ELSE IF authorId = Absent THEN "BadRequest: author required"
  ELSE IF ~isValidObjectId(authorId) THEN "BadRequest: invalid author"
  ELSE IF \E i \in 1 .. Len(categoryIds) : ~isValidObjectId(categoryIds[i])
       THEN "BadRequest: invalid category"
  ELSE "ok"

PostsCreateStart(r, authorId, hasCategoryIds, categoryIds, title) ==
  /\ Admit(r)
  /\ Admitted
  /\ nextPost + CreatesBeforeId <= MaxPosts
  /\ DocsDrawn < MaxDocs
  /\ LET v == CreateValidation(authorId, hasCategoryIds, categoryIds)
     IN req' = [req EXCEPT ![r] =
          IF v # "ok" THEN Thrown("createPost", v)
          ELSE [Idle EXCEPT !.op = "createPost", !.pc = "findAuthor",
                            !.authorId = authorId, !.hasCategoryIds = TRUE,
                            !.categoryIds = categoryIds, !.title = title]]
  /\ UNCHANGED <<store, serial, returned>>

\* Line 44-45
PostsCreateFindAuthor(r) ==
  /\ At(r, "createPost", "findAuthor")
  /\ req' = [req EXCEPT ![r] =
       IF req[r].authorId \in DOMAIN users THEN [@ EXCEPT !.pc = "findCategories"]
       ELSE Thrown("createPost", "BadRequest: author does not exist")]
  /\ UNCHANGED <<store, serial, started, returned>>

\* Faulty variant of lines 48-59: the Post saved before the categories are counted.
PostsCreateSaveBeforeCount(r) ==
  /\ At(r, "createPost", "findCategories")
  /\ posts' = Insert(posts, nextPost,
       [title |-> req[r].title, authorId |-> req[r].authorId, categories |-> req[r].categoryIds,
        viewCount |-> 0])
  /\ nextPost' = nextPost + 1
  /\ req' = [req EXCEPT ![r] =
       IF Cardinality(FindCategories(req[r].categoryIds)) # Len(req[r].categoryIds)
       THEN Thrown("createPost", "BadRequest: categories do not exist")
       ELSE [@ EXCEPT !.pc = "save", !.id = nextPost]]
  /\ UNCHANGED <<users, categories, nextUser, nextCat, serial, started, returned>>

\* Faulty variant of lines 48-52: the categories found counted against the
\* distinct identifiers of the list, new Set(categoryIds).size.
PostsCreateFindCategoriesDistinct(r) ==
  /\ At(r, "createPost", "findCategories")
  /\ IF Cardinality(FindCategories(req[r].categoryIds)) # Cardinality(Range(req[r].categoryIds))
     THEN /\ req' = [req EXCEPT ![r] = Thrown("createPost", "BadRequest: categories do not exist")]
          /\ UNCHANGED nextPost
     ELSE /\ req' = [req EXCEPT ![r] = [@ EXCEPT !.pc = "save", !.id = nextPost]]
          /\ nextPost' = nextPost + 1
  /\ UNCHANGED <<users, categories, posts, nextUser, nextCat, serial, started, returned>>

\* Lines 48-58: the count of the categories found against the length of the
\* list asked for, then new this.postModel(...), which draws the Post id.
PostsCreateFindCategories(r) ==
  /\ At(r, "createPost", "findCategories")
  /\ IF Cardinality(FindCategories(req[r].categoryIds)) # Len(req[r].categoryIds)
     THEN /\ req' = [req EXCEPT ![r] = Thrown("createPost", "BadRequest: categories do not exist")]
          /\ UNCHANGED nextPost
     ELSE /\ req' = [req EXCEPT ![r] = [@ EXCEPT !.pc = "save", !.id = nextPost]]
          /\ nextPost' = nextPost + 1
  /\ UNCHANGED <<users, categories, posts, nextUser, nextCat, serial, started, returned>>

\* Line 59
PostsCreateSave(r) ==
  /\ At(r, "createPost", "save")
  /\ posts' = Insert(posts, req[r].id,
       [title |-> req[r].title, authorId |-> req[r].authorId, categories |-> req[r].categoryIds,
        viewCount |-> 0])
  /\ req' = [req EXCEPT ![r] = [@ EXCEPT !.pc = "pushAuthor", !.title = Absent]]
  /\ UNCHANGED <<users, categories, nextUser, nextCat, nextPost, serial, started, returned>>

\* Lines 62-68: findByIdAndUpdate(authorId, { $push: { posts: post._id } })
PostsCreatePushAuthor(r) ==
  /\ At(r, "createPost", "pushAuthor")
  /\ users' = IF req[r].authorId \in DOMAIN users
              THEN [users EXCEPT ![req[r].authorId].posts = Push(@, req[r].id)]
              ELSE users
  /\ req' = [req EXCEPT ![r] = [@ EXCEPT !.pc = "pushCategories", !.todo = Range(req[r].categoryIds)]]
  /\ UNCHANGED <<categories, posts, nextUser, nextCat, nextPost, serial, started, returned>>

\* Faulty variant of the push to the categories: updateOne in place of updateMany,
\* so one Category is updated and the call ends.
PostsCreatePushOneCategory(r) ==
  /\ At(r, "createPost", "pushCategories")
  /\ IF req[r].todo = Range(req[r].categoryIds) /\ req[r].todo \cap DOMAIN categories # {}
     THEN \E c \in req[r].todo \cap DOMAIN categories :
            /\ categories' = [categories EXCEPT ![c].posts = Push(@, req[r].id)]
            /\ req' = [req EXCEPT ![r] = [@ EXCEPT !.todo = @ \ {c}]]
     ELSE /\ req' = [req EXCEPT ![r] = [@ EXCEPT !.pc = "populate", !.todo = {}]]
          /\ UNCHANGED categories
  /\ UNCHANGED <<users, posts, nextUser, nextCat, nextPost, serial, started, returned>>

\* Faulty variant of the push to the categories: $set of the list to the new Post id
\* in place of $push.
PostsCreateSetCategories(r) ==
  /\ At(r, "createPost", "pushCategories")
  /\ IF req[r].todo \cap DOMAIN categories # {}
     THEN \E c \in req[r].todo \cap DOMAIN categories :
            /\ categories' = [categories EXCEPT ![c].posts = <<req[r].id>>]
            /\ req' = [req EXCEPT ![r] = [@ EXCEPT !.todo = @ \ {c}]]
     ELSE /\ req' = [req EXCEPT ![r] = [@ EXCEPT !.pc = "populate", !.todo = {}]]
          /\ UNCHANGED categories
  /\ UNCHANGED <<users, posts, nextUser, nextCat, nextPost, serial, started, returned>>

\* Lines 71-74: updateMany({ _id: { $in: categoryIds } }, { $push: ... }),
\* one matching document per step; the call ends when none is left.
PostsCreatePushCategories(r) ==
  /\ At(r, "createPost", "pushCategories")
  /\ IF req[r].todo \cap DOMAIN categories # {}
     THEN \E c \in req[r].todo \cap DOMAIN categories :
            /\ categories' = [categories EXCEPT ![c].posts = Push(@, req[r].id)]
            /\ req' = [req EXCEPT ![r] = [@ EXCEPT !.todo = @ \ {c}]]
     ELSE /\ req' = [req EXCEPT ![r] = [@ EXCEPT !.pc = "populate", !.todo = {}]]
          /\ UNCHANGED categories
  /\ UNCHANGED <<users, posts, nextUser, nextCat, nextPost, serial, started, returned>>

\* Lines 77-81: populate reads the author and the categories; the Post is returned.
PostsCreatePopulate(r) ==
  /\ At(r, "createPost", "populate")
  /\ req' = [req EXCEPT ![r] = [@ EXCEPT !.pc = "done"]]
  /\ UNCHANGED <<store, serial, started, returned>>

\* -------------------------------------------------- PostsService.findOne
\* Line 108
PostsFindOneStart(r, id) ==
  /\ Admit(r)
  /\ Admitted
  /\ req' = [req EXCEPT ![r] =
       IF ~isValidObjectId(id) THEN Thrown("findOnePost", "NotFound: invalid post id")
       ELSE [Idle EXCEPT !.op = "findOnePost", !.pc = "findPost", !.id = id]]
  /\ UNCHANGED <<store, serial, returned>>

\* Lines 111-113: findById(id)
PostsFindOneFindPost(r) ==
  /\ At(r, "findOnePost", "findPost")
  /\ req' = [req EXCEPT ![r] =
       IF req[r].id \in DOMAIN posts
       THEN [@ EXCEPT !.pc = "increment", !.existing = posts[req[r].id]]
       ELSE Thrown("findOnePost", "NotFound: post")]
  /\ UNCHANGED <<store, serial, started, returned>>

\* Faulty variant of lines 115-132: the counter of the document read at line 111
\* raised and the document saved, in place of $inc.
PostsFindOneSaveRead(r) ==
  /\ At(r, "findOnePost", "increment")
  /\ IF req[r].id \in DOMAIN posts
     THEN /\ posts' = [posts EXCEPT ![req[r].id].viewCount = req[r].existing.viewCount + 1]
          /\ req' = [req EXCEPT ![r] = [@ EXCEPT !.pc = "done", !.existing = posts'[req[r].id]]]
          /\ returned' = [returned EXCEPT ![req[r].id] = @ + 1]
     ELSE /\ req' = [req EXCEPT ![r] = Thrown("findOnePost", "NotFound: post")]
          /\ UNCHANGED <<posts, returned>>
  /\ UNCHANGED <<users, categories, nextUser, nextCat, nextPost, serial, started>>

\* Lines 115-132: findByIdAndUpdate(id, { $inc: { viewCount: 1 } }, { new: true }),
\* which adds one to the counter the store holds and inserts nothing; null,
\* when the Post is there no more, is NotFound.
PostsFindOneIncrement(r) ==
  /\ At(r, "findOnePost", "increment")
  /\ IF req[r].id \in DOMAIN posts
     THEN /\ posts' = [posts EXCEPT ![req[r].id].viewCount = @ + 1]
          /\ req' = [req EXCEPT ![r] = [@ EXCEPT !.pc = "done", !.existing = posts'[req[r].id]]]
          /\ returned' = [returned EXCEPT ![req[r].id] = @ + 1]
     ELSE /\ req' = [req EXCEPT ![r] = Thrown("findOnePost", "NotFound: post")]
          /\ UNCHANGED <<posts, returned>>
  /\ UNCHANGED <<users, categories, nextUser, nextCat, nextPost, serial, started>>

\* --------------------------------------------------- PostsService.update
\* Faulty variant of categoriesToRemove: the filter left out, every old category goes.
RemoveAllExisting(existingCategoryIds, categoriesToAdd) == existingCategoryIds

\* Lines 191-193: the old categories the new list leaves out.
CategoriesToRemove(existingCategoryIds, categoriesToAdd) ==
  SelectSeq(existingCategoryIds, LAMBDA catId : catId \notin Range(categoriesToAdd))

\* Faulty variant of categoriesToActuallyAdd: the filter left out, every new category
\* is pushed, those the Post already had too.
AddAllRequested(existingCategoryIds, categoriesToAdd) == categoriesToAdd

\* Lines 202-204: the new categories the Post did not have.
CategoriesToActuallyAdd(existingCategoryIds, categoriesToAdd) ==
  SelectSeq(categoriesToAdd, LAMBDA catId : catId \notin Range(existingCategoryIds))

\* Faulty variant of lines 214-216: a field counts as changed as soon as it is given.
HasDataChangesWhenGiven(q) == q.title # Absent

\* Lines 214-216, with the title standing for the fields of postData.
HasDataChanges(q) == q.title # Absent /\ q.title # q.existing.title

\* Lines 220-223
HasCategoryChanges(q) ==
  /\ q.hasCategoryIds
  /\ \/ \E catId \in Range(q.existing.categories) : catId \notin Range(q.categoryIds)
     \/ Len(q.categoryIds) # Len(q.existing.categories)

\* Lines 213-226: the request goes on to the write, or throws.
UpdateCheckChanges(q) ==
  IF ~HasDataChanges(q) /\ ~HasCategoryChanges(q) /\ q.authorId = Absent
  THEN Thrown("updatePost", "Conflict: no changes detected")
  ELSE [q EXCEPT !.pc = "write", !.todo = {}]

\* Lines 201-210: the push is issued when there is a category to add.
UpdateAfterPull(q) ==
  LET toAdd == CategoriesToActuallyAdd(q.existing.categories, q.categoryIds)
  IN IF Len(toAdd) > 0
     THEN [q EXCEPT !.pc = "pushCategories", !.todo = Range(toAdd)]
     ELSE UpdateCheckChanges(q)

\* Faulty variant of lines 184-211: the push nested in the block of the pull, so
\* that nothing is added when there is nothing to remove.
UpdateAfterAuthorNested(q) ==
  IF q.hasCategoryIds
  THEN LET toRemove == CategoriesToRemove(q.existing.categories, q.categoryIds)
       IN IF Len(toRemove) > 0
          THEN [q EXCEPT !.pc = "pullCategories", !.todo = Range(toRemove)]
          ELSE UpdateCheckChanges(q)
  ELSE UpdateCheckChanges(q)

\* Lines 184-199: the pull is issued when there is a category to remove.
UpdateAfterAuthor(q) ==
  IF q.hasCategoryIds
  THEN LET toRemove == CategoriesToRemove(q.existing.categories, q.categoryIds)
       IN IF Len(toRemove) > 0
          THEN [q EXCEPT !.pc = "pullCategories", !.todo = Range(toRemove)]
          ELSE UpdateAfterPull(q)
  ELSE UpdateCheckChanges(q)

\* Faulty variant of line 172: the comparison with the present author left out.
UpdateAlwaysReassign(q) ==
  IF q.authorId # Absent THEN [q EXCEPT !.pc = "pullOldAuthor"] ELSE UpdateAfterAuthor(q)

\* Line 172
UpdateAfterFindPost(q) ==
  IF q.authorId # Absent /\ q.authorId # q.existing.authorId
  THEN [q EXCEPT !.pc = "pullOldAuthor"]
  ELSE UpdateAfterAuthor(q)

\* Lines 138-151: the checks made before the first store access.
UpdateValidation(id, authorId, hasCategoryIds, categoryIds) ==
  IF ~isValidObjectId(id) THEN "NotFound: invalid post id"
  ELSE IF authorId # Absent /\ ~isValidObjectId(authorId) THEN "BadRequest: invalid author"
  ELSE IF hasCategoryIds /\ \E i \in 1 .. Len(categoryIds) : ~isValidObjectId(categoryIds[i])
       THEN "BadRequest: invalid category"
  ELSE "ok"

PostsUpdateStart(r, id, authorId, hasCategoryIds, categoryIds, title) ==
  /\ Admit(r)
  /\ Admitted
  /\ LET v == UpdateValidation(id, authorId, hasCategoryIds, categoryIds)
     IN req' = [req EXCEPT ![r] =
          IF v # "ok" THEN Thrown("updatePost", v)
          ELSE [Idle EXCEPT !.op = "updatePost",
                            !.pc = IF hasCategoryIds THEN "findCategories"
                                   ELSE IF authorId # Absent THEN "findAuthor"
                                   ELSE "findPost",
                            !.id = id, !.authorId = authorId,
                            !.hasCategoryIds = hasCategoryIds,
                            !.categoryIds = categoryIds, !.title = title]]
  /\ UNCHANGED <<store, serial, returned>>

\* Lines 154-158
PostsUpdateFindCategories(r) ==
  /\ At(r, "updatePost", "findCategories")
  /\ req' = [req EXCEPT ![r] =
       IF Cardinality(FindCategories(req[r].categoryIds)) # Len(req[r].categoryIds)
       THEN Thrown("updatePost", "BadRequest: categories do not exist")
       ELSE [@ EXCEPT !.pc = IF req[r].authorId # Absent THEN "findAuthor" ELSE "findPost"]]
  /\ UNCHANGED <<store, serial, started, returned>>

\* Lines 162-165
PostsUpdateFindAuthor(r) ==
  /\ At(r, "updatePost", "findAuthor")
  /\ req' = [req EXCEPT ![r] =
       IF req[r].authorId \in DOMAIN users THEN [@ EXCEPT !.pc = "findPost"]
       ELSE Thrown("updatePost", "BadRequest: author does not exist")]
  /\ UNCHANGED <<store, serial, started, returned>>

\* Lines 167-172
PostsUpdateFindPost(r) ==
  /\ At(r, "updatePost", "findPost")
  /\ req' = [req EXCEPT ![r] =
       IF req[r].id \in DOMAIN posts
       THEN UpdateAfterFindPost([@ EXCEPT !.existing = posts[req[r].id]])
       ELSE Thrown("updatePost", "NotFound: post")]
  /\ UNCHANGED <<store, serial, started, returned>>

\* Faulty variant of the pull from the old author: the list is left as it is.
PostsUpdateKeepOldAuthor(r) ==
  /\ At(r, "updatePost", "pullOldAuthor")
  /\ req' = [req EXCEPT ![r] = [@ EXCEPT !.pc = "addNewAuthor"]]
  /\ UNCHANGED <<store, serial, started, returned>>

\* Lines 174-176: findByIdAndUpdate(existingPost.authorId, { $pull: { posts: id } })
PostsUpdatePullOldAuthor(r) ==
  /\ At(r, "updatePost", "pullOldAuthor")
  /\ users' = IF req[r].existing.authorId \in DOMAIN users
              THEN [users EXCEPT ![req[r].existing.authorId].posts = Pull(@, req[r].id)]
              ELSE users
  /\ req' = [req EXCEPT ![r] = [@ EXCEPT !.pc = "addNewAuthor"]]
  /\ UNCHANGED <<categories, posts, nextUser, nextCat, nextPost, serial, started, returned>>

\* Faulty variant of the add to the new author: the list is left as it is.
PostsUpdateSkipNewAuthor(r) ==
  /\ At(r, "updatePost", "addNewAuthor")
  /\ req' = [req EXCEPT ![r] = UpdateAfterAuthor(req[r])]
  /\ UNCHANGED <<store, serial, started, returned>>

\* Lines 179-181: findByIdAndUpdate(authorId, { $addToSet: { posts: id } })
PostsUpdateAddNewAuthor(r) ==
  /\ At(r, "updatePost", "addNewAuthor")
  /\ users' = IF req[r].authorId \in DOMAIN users
              THEN [users EXCEPT ![req[r].authorId].posts = AddToSet(@, req[r].id)]
              ELSE users
  /\ req' = [req EXCEPT ![r] = UpdateAfterAuthor(req[r])]
  /\ UNCHANGED <<categories, posts, nextUser, nextCat, nextPost, serial, started, returned>>

\* Lines 195-198: updateMany({ _id: { $in: categoriesToRemove } }, { $pull: ... })
PostsUpdatePullCategories(r) ==
  /\ At(r, "updatePost", "pullCategories")
  /\ IF req[r].todo \cap DOMAIN categories # {}
     THEN \E c \in req[r].todo \cap DOMAIN categories :
            /\ categories' = [categories EXCEPT ![c].posts = Pull(@, req[r].id)]
            /\ req' = [req EXCEPT ![r] = [@ EXCEPT !.todo = @ \ {c}]]
     ELSE /\ req' = [req EXCEPT ![r] = UpdateAfterPull(req[r])]
          /\ UNCHANGED categories
  /\ UNCHANGED <<users, posts, nextUser, nextCat, nextPost, serial, started, returned>>

\* Lines 206-209: updateMany({ _id: { $in: categoriesToActuallyAdd } }, { $push: ... })
PostsUpdatePushCategories(r) ==
  /\ At(r, "updatePost", "pushCategories")
  /\ IF req[r].todo \cap DOMAIN categories # {}
     THEN \E c \in req[r].todo \cap DOMAIN categories :
            /\ categories' = [categories EXCEPT ![c].posts = Push(@, req[r].id)]
            /\ req' = [req EXCEPT ![r] = [@ EXCEPT !.todo = @ \ {c}]]
     ELSE /\ req' = [req EXCEPT ![r] = UpdateCheckChanges(req[r])]
          /\ UNCHANGED categories
  /\ UNCHANGED <<users, posts, nextUser, nextCat, nextPost, serial, started, returned>>

\* Faulty variant of lines 229-231: line 231 left out, the categories of the
\* Post stay as they were.
UpdateDataNoCategories(q, doc) ==
  [title |-> IF q.title # Absent THEN q.title ELSE doc.title,
   authorId |-> IF q.authorId # Absent THEN q.authorId ELSE doc.authorId,
   categories |-> doc.categories,
   viewCount |-> doc.viewCount]

\* Faulty variant of lines 229-231: the test of line 231 left out, the
\* categories are written also when the request gives none.
UpdateDataAlwaysCategories(q, doc) ==
  [title |-> IF q.title # Absent THEN q.title ELSE doc.title,
   authorId |-> IF q.authorId # Absent THEN q.authorId ELSE doc.authorId,
   categories |-> q.categoryIds,
   viewCount |-> doc.viewCount]

\* Lines 229-231: the fields the request gives replace the Post's; viewCount
\* is not among them.
UpdateData(q, doc) ==
  [title |-> IF q.title # Absent THEN q.title ELSE doc.title,
   authorId |-> IF q.authorId # Absent THEN q.authorId ELSE doc.authorId,
   categories |-> IF q.hasCategoryIds THEN q.categoryIds ELSE doc.categories,
   viewCount |-> doc.viewCount]

\* Lines 234-247: findByIdAndUpdate(id, updateData); a Post deleted meanwhile
\* is not recreated and null is returned.
PostsUpdateWrite(r) ==
  /\ At(r, "updatePost", "write")
  /\ posts' = IF req[r].id \in DOMAIN posts
              THEN [posts EXCEPT ![req[r].id] = UpdateData(req[r], @)]
              ELSE posts
  /\ req' = [req EXCEPT ![r] = [@ EXCEPT !.pc = "done", !.title = Absent]]
  /\ UNCHANGED <<users, categories, nextUser, nextCat, nextPost, serial, started, returned>>

\* --------------------------------------------------- PostsService.remove
PostsRemoveStart(r, id) ==
  /\ Admit(r)
  /\ Admitted
  /\ req' = [req EXCEPT ![r] =
       IF ~isValidObjectId(id) THEN Thrown("removePost", "NotFound: invalid post id")
       ELSE [Idle EXCEPT !.op = "removePost", !.pc = "findPost", !.id = id]]
  /\ UNCHANGED <<store, serial, returned>>

\* Lines 256-258
PostsRemoveFindPost(r) ==
  /\ At(r, "removePost", "findPost")
  /\ req' = [req EXCEPT ![r] =
       IF req[r].id \in DOMAIN posts THEN [@ EXCEPT !.pc = "delete"]
       ELSE Thrown("removePost", "NotFound: post")]
  /\ UNCHANGED <<store, serial, started, returned>>

\* populate of a reference keeps the documents that exist: an author that
\* does not exist becomes null, a category that does not exist is dropped.
PopulateAuthor(authorId) == IF authorId \in DOMAIN users THEN authorId ELSE Absent

PopulateCategories(ids) == SelectSeq(ids, LAMBDA c : c \in DOMAIN categories)

\* Faulty variant of lines 260-273: findById in place of findByIdAndDelete, so the
\* pulls are made while the Post is still there.
PostsRemoveReadOnly(r) ==
  /\ At(r, "removePost", "delete")
  /\ req' = [req EXCEPT ![r] =
       IF req[r].id \in DOMAIN posts
       THEN [@ EXCEPT !.pc = "pullAuthor",
                      !.existing = posts[req[r].id],
                      !.authorId = PopulateAuthor(posts[req[r].id].authorId),
                      !.categoryIds = PopulateCategories(posts[req[r].id].categories)]
       ELSE Thrown("removePost", "NotFound: post")]
  /\ UNCHANGED <<store, serial, started, returned>>

\* Lines 260-273: findByIdAndDelete(id) with its populate.
PostsRemoveDelete(r) ==
  /\ At(r, "removePost", "delete")
  /\ IF req[r].id \in DOMAIN posts
     THEN /\ posts' = Delete(posts, req[r].id)
          /\ req' = [req EXCEPT ![r] =
               [@ EXCEPT !.pc = "pullAuthor",
                         !.existing = posts[req[r].id],
                         !.authorId = PopulateAuthor(posts[req[r].id].authorId),
                         !.categoryIds = PopulateCategories(posts[req[r].id].categories)]]
     ELSE /\ req' = [req EXCEPT ![r] = Thrown("removePost", "NotFound: post")]
          /\ UNCHANGED posts
  /\ UNCHANGED <<users, categories, nextUser, nextCat, nextPost, serial, started, returned>>

\* Faulty variant of the pull from the author of a deleted Post: the list is left as it is.
PostsRemoveSkipAuthor(r) ==
  /\ At(r, "removePost", "pullAuthor")
  /\ req' = [req EXCEPT ![r] = [@ EXCEPT !.pc = "pullCategories", !.todo = Range(req[r].categoryIds)]]
  /\ UNCHANGED <<store, serial, started, returned>>

\* Lines 276-278: findByIdAndUpdate(deletedPost.authorId, { $pull: { posts: id } })
PostsRemovePullAuthor(r) ==
  /\ At(r, "removePost", "pullAuthor")
  /\ users' = IF req[r].authorId \in DOMAIN users
              THEN [users EXCEPT ![req[r].authorId].posts = Pull(@, req[r].id)]
              ELSE users
  /\ req' = [req EXCEPT ![r] = [@ EXCEPT !.pc = "pullCategories", !.todo = Range(req[r].categoryIds)]]
  /\ UNCHANGED <<categories, posts, nextUser, nextCat, nextPost, serial, started, returned>>

\* Lines 281-287: updateMany({ _id: { $in: categoryIds } }, { $pull: ... })
PostsRemovePullCategories(r) ==
  /\ At(r, "removePost", "pullCategories")
  /\ IF req[r].todo \cap DOMAIN categories # {}
     THEN \E c \in req[r].todo \cap DOMAIN categories :
            /\ categories' = [categories EXCEPT ![c].posts = Pull(@, req[r].id)]
            /\ req' = [req EXCEPT ![r] = [@ EXCEPT !.todo = @ \ {c}]]
     ELSE /\ req' = [req EXCEPT ![r] = [@ EXCEPT !.pc = "done", !.todo = {}]]
          /\ UNCHANGED categories
  /\ UNCHANGED <<users, posts, nextUser, nextCat, nextPost, serial, started, returned>>

\* --------------------------------------------------- UsersService.update
\* Of the fields of UpdateUserDto the e-mail is modelled: a request that
\* gives none changes one of the others.
UsersUpdateStart(r, id, email) ==
  /\ Admit(r)
  /\ Admitted
  /\ req' = [req EXCEPT ![r] =
       IF ~isValidObjectId(id) THEN Thrown("updateUser", "InternalServerError: invalid user id")
       ELSE [Idle EXCEPT !.op = "updateUser", !.pc = "findUser", !.id = id, !.email = email]]
  /\ UNCHANGED <<store, serial, returned>>

\* Lines 247-256: findById, then the test that the request changes a field.
UsersUpdateFindUser(r) ==
  /\ At(r, "updateUser", "findUser")
  /\ req' = [req EXCEPT ![r] =
       IF req[r].id \notin DOMAIN users THEN Thrown("updateUser", "NotFound: user")
       ELSE IF req[r].email = users[req[r].id].email THEN Thrown("updateUser", "Error: no changes detected")
       ELSE [@ EXCEPT !.pc = "write"]]
  /\ UNCHANGED <<store, serial, started, returned>>

\* Lines 261-268: findByIdAndUpdate(id, updateUserDto); the index refuses an
\* address another User has and nothing catches that error.
UsersUpdateWrite(r) ==
  /\ At(r, "updateUser", "write")
  /\ IF req[r].id \notin DOMAIN users
     THEN /\ req' = [req EXCEPT ![r] = Thrown("updateUser", "InternalServerError: failed to update")]
          /\ UNCHANGED users
     ELSE IF req[r].email # Absent /\ EmailTaken(req[r].email, req[r].id)
     THEN /\ req' = [req EXCEPT ![r] = Thrown("updateUser", "DuplicateKey")]
          /\ UNCHANGED users
     ELSE /\ users' = IF req[r].email # Absent
                      THEN [users EXCEPT ![req[r].id].email = req[r].email]
                      ELSE users
          /\ req' = [req EXCEPT ![r] = [@ EXCEPT !.pc = "done"]]
  /\ UNCHANGED <<categories, posts, nextUser, nextCat, nextPost, serial, started, returned>>

\* --------------------------------------------------- UsersService.remove
UsersRemoveStart(r, id) ==
  /\ Admit(r)
  /\ Admitted
  /\ req' = [req EXCEPT ![r] =
       IF ~isValidObjectId(id) THEN Thrown("removeUser", "InternalServerError: invalid user id")
       ELSE [Idle EXCEPT !.op = "removeUser", !.pc = "findUser", !.id = id]]
  /\ UNCHANGED <<store, serial, returned>>

\* populate('posts') keeps the Posts that exist.
PopulatePosts(ids) == Range(ids) \cap DOMAIN posts

\* Faulty variant of lines 279-286: the User deleted as soon as it is found.
UsersRemoveDeleteUserFirst(r) ==
  /\ At(r, "removeUser", "findUser")
  /\ req' = [req EXCEPT ![r] =
       IF req[r].id \notin DOMAIN users THEN Thrown("removeUser", "NotFound: user")
       ELSE LET postIds == PopulatePosts(users[req[r].id].posts)
            IN IF postIds # {}
               THEN [@ EXCEPT !.pc = "pullCategories", !.postIds = postIds, !.todo = 1 .. MaxCats]
               ELSE [@ EXCEPT !.pc = "deleteUser"]]
  /\ users' = IF req[r].id \in DOMAIN users THEN Delete(users, req[r].id) ELSE users
  /\ UNCHANGED <<categories, posts, nextUser, nextCat, nextPost, serial, started, returned>>

\* Lines 279-286
UsersRemoveFindUser(r) ==
  /\ At(r, "removeUser", "findUser")
  /\ req' = [req EXCEPT ![r] =
       IF req[r].id \notin DOMAIN users THEN Thrown("removeUser", "NotFound: user")
       ELSE LET postIds == PopulatePosts(users[req[r].id].posts)
            IN IF postIds # {}
               THEN [@ EXCEPT !.pc = "pullCategories", !.postIds = postIds, !.todo = 1 .. MaxCats]
               ELSE [@ EXCEPT !.pc = "deleteUser"]]
  /\ UNCHANGED <<store, serial, started, returned>>

\* Faulty variant of the filter: $all in place of $in.
ListsAll(c, postIds) == c \in DOMAIN categories /\ postIds \subseteq Range(categories[c].posts)

\* The filter { posts: { $in: postIds } }
ListsAny(c, postIds) == c \in DOMAIN categories /\ Range(categories[c].posts) \cap postIds # {}

\* Lines 287-290: updateMany({ posts: { $in: postIds } }, { $pull: { posts: { $in: postIds } } }),
\* one matching Category not yet visited per step.
UsersRemovePullCategories(r) ==
  /\ At(r, "removeUser", "pullCategories")
  /\ IF \E c \in req[r].todo : ListsAny(c, req[r].postIds)
     THEN \E c \in req[r].todo :
            /\ ListsAny(c, req[r].postIds)
            /\ categories' = [categories EXCEPT ![c].posts = PullIn(@, req[r].postIds)]
            /\ req' = [req EXCEPT ![r] = [@ EXCEPT !.todo = @ \ {c}]]
     ELSE /\ req' = [req EXCEPT ![r] = [@ EXCEPT !.pc = "deletePosts", !.todo = req[r].postIds]]
          /\ UNCHANGED categories
  /\ UNCHANGED <<users, posts, nextUser, nextCat, nextPost, serial, started, returned>>

\* Line 293: deleteMany({ _id: { $in: postIds } })
UsersRemoveDeletePosts(r) ==
  /\ At(r, "removeUser", "deletePosts")
  /\ IF req[r].todo \cap DOMAIN posts # {}
     THEN \E p \in req[r].todo \cap DOMAIN posts :
            /\ posts' = Delete(posts, p)
            /\ req' = [req EXCEPT ![r] = [@ EXCEPT !.todo = @ \ {p}]]
     ELSE /\ req' = [req EXCEPT ![r] = [@ EXCEPT !.pc = "deleteUser", !.todo = {}]]
          /\ UNCHANGED posts
  /\ UNCHANGED <<users, categories, nextUser, nextCat, nextPost, serial, started, returned>>

\* Lines 296-302: findByIdAndDelete(id)
UsersRemoveDeleteUser(r) ==
  /\ At(r, "removeUser", "deleteUser")
  /\ IF req[r].id \in DOMAIN users
     THEN /\ users' = Delete(users, req[r].id)
          /\ req' = [req EXCEPT ![r] = [@ EXCEPT !.pc = "done"]]
     ELSE /\ req' = [req EXCEPT ![r] = Thrown("removeUser", "NotFound: user")]
          /\ UNCHANGED users
  /\ UNCHANGED <<categories, posts, nextUser, nextCat, nextPost, serial, started, returned>>

\* ---------------------------------------------- CategoriesService.update
\* Of the fields of UpdateCategoryDto the name is modelled.
CategoriesUpdateStart(r, id, name) ==
  /\ Admit(r)
  /\ Admitted
  /\ req' = [req EXCEPT ![r] =
       IF ~isValidObjectId(id) THEN Thrown("updateCategory", "InternalServerError: invalid category id")
       ELSE [Idle EXCEPT !.op = "updateCategory", !.pc = "findCategory", !.id = id, !.name = name]]
  /\ UNCHANGED <<store, serial, returned>>

\* Lines 66-68
CategoriesUpdateFindCategory(r) ==
  /\ At(r, "updateCategory", "findCategory")
  /\ req' = [req EXCEPT ![r] =
       IF req[r].id \notin DOMAIN categories THEN Thrown("updateCategory", "NotFound: category")
       ELSE [@ EXCEPT !.pc = "write"]]
  /\ UNCHANGED <<store, serial, started, returned>>

\* Lines 70-76: findByIdAndUpdate(id, updateCategoryDto); the index refuses
\* a name another Category has.
CategoriesUpdateWrite(r) ==
  /\ At(r, "updateCategory", "write")
  /\ IF req[r].id \notin DOMAIN categories
     THEN /\ req' = [req EXCEPT ![r] = Thrown("updateCategory", "InternalServerError: failed to update")]
          /\ UNCHANGED categories
     ELSE IF req[r].name # Absent /\ NameTaken(req[r].name, req[r].id)
     THEN /\ req' = [req EXCEPT ![r] = Thrown("updateCategory", "DuplicateKey")]
          /\ UNCHANGED categories
     ELSE /\ categories' = IF req[r].name # Absent
                           THEN [categories EXCEPT ![req[r].id].name = req[r].name]
                           ELSE categories
          /\ req' = [req EXCEPT ![r] = [@ EXCEPT !.pc = "done"]]
  /\ UNCHANGED <<users, posts, nextUser, nextCat, nextPost, serial, started, returned>>

\* ---------------------------------------------- CategoriesService.remove
CategoriesRemoveStart(r, id) ==
  /\ Admit(r)
  /\ Admitted
  /\ req' = [req EXCEPT ![r] =
       IF ~isValidObjectId(id) THEN Thrown("removeCategory", "InternalServerError: invalid category id")
       ELSE [Idle EXCEPT !.op = "removeCategory", !.pc = "findCategory", !.id = id]]
  /\ UNCHANGED <<store, serial, returned>>

\* Lines 87-89
CategoriesRemoveFindCategory(r) ==
  /\ At(r, "removeCategory", "findCategory")
  /\ req' = [req EXCEPT ![r] =
       IF req[r].id \in DOMAIN categories
       THEN [@ EXCEPT !.pc = "pullPosts", !.todo = 1 .. MaxPosts]
       ELSE Thrown("removeCategory", "NotFound: category")]
  /\ UNCHANGED <<store, serial, started, returned>>

\* The filter { categories: id }
InCategory(p, id) == p \in DOMAIN posts /\ id \in Range(posts[p].categories)

\* Faulty variant of the pull from the Posts: deleteMany({ categories: id }).
CategoriesRemoveDeletePosts(r) ==
  /\ At(r, "removeCategory", "pullPosts")
  /\ IF \E p \in req[r].todo : InCategory(p, req[r].id)
     THEN \E p \in req[r].todo :
            /\ InCategory(p, req[r].id)
            /\ posts' = Delete(posts, p)
            /\ req' = [req EXCEPT ![r] = [@ EXCEPT !.todo = @ \ {p}]]
     ELSE /\ req' = [req EXCEPT ![r] = [@ EXCEPT !.pc = "deleteCategory"]]
          /\ UNCHANGED posts
  /\ UNCHANGED <<users, categories, nextUser, nextCat, nextPost, serial, started, returned>>

\* Lines 92-95: updateMany({ categories: id }, { $pull: { categories: id } }),
\* one matching Post not yet visited per step.
CategoriesRemovePullPosts(r) ==
  /\ At(r, "removeCategory", "pullPosts")
  /\ IF \E p \in req[r].todo : InCategory(p, req[r].id)
     THEN \E p \in req[r].todo :
            /\ InCategory(p, req[r].id)
            /\ posts' = [posts EXCEPT ![p].categories = Pull(@, req[r].id)]
            /\ req' = [req EXCEPT ![r] = [@ EXCEPT !.todo = @ \ {p}]]
     ELSE /\ req' = [req EXCEPT ![r] = [@ EXCEPT !.pc = "deleteCategory"]]
          /\ UNCHANGED posts
  /\ UNCHANGED <<users, categories, nextUser, nextCat, nextPost, serial, started, returned>>

\* Lines 97-100: findByIdAndDelete(id)
CategoriesRemoveDeleteCategory(r) ==
  /\ At(r, "removeCategory", "deleteCategory")
  /\ IF req[r].id \in DOMAIN categories
     THEN /\ categories' = Delete(categories, req[r].id)
          /\ req' = [req EXCEPT ![r] = [@ EXCEPT !.pc = "done"]]
     ELSE /\ req' = [req EXCEPT ![r] = Thrown("removeCategory", "InternalServerError: failed to delete")]
          /\ UNCHANGED categories
  /\ UNCHANGED <<users, posts, nextUser, nextCat, nextPost, serial, started, returned>>

\* ---------------------------------------------------------------- response
\* The controller sends what the service returned or threw; the slot is free.
Respond(r) ==
  /\ req[r].pc \in {"done", "error"}
  /\ req' = [req EXCEPT ![r] = Idle]
  /\ UNCHANGED <<store, serial, started, returned>>

\* ------------------------------------------------------------ store failure
\* The store operation a request awaits rejects, or the process stops there.
\* No method of PostsService, and neither update nor remove of the other two
\* services, awaits inside a try: the rejection ends the request, what it
\* has written stays, and the steps it had left are not taken.  The two
\* create methods that do catch throw InternalServerError in its place.
StoreFails(r) ==
  /\ ~Quiescent(r)
  /\ req' = [req EXCEPT ![r] =
       [@ EXCEPT !.pc = "error", !.failedAt = req[r].pc, !.title = Absent, !.todo = {},
                 !.err = IF req[r].op \in {"createUser", "createCategory"}
                         THEN "InternalServerError" ELSE "StoreError"]]
  /\ UNCHANGED <<store, serial, started, returned>>

\* UsersService.remove alone stops.
UsersRemoveStops(r) ==
  /\ req[r].op = "removeUser"
  /\ StoreFails(r)

\* -------------------------------------------------------------- behaviour
\* The requests a client may send.
PostsCreate(r) ==
  /\ Admit(r)
  /\ \/ \E a \in UserInputs \cup {Absent}, cs \in CatIdSeqs, t \in Titles :
          PostsCreateStart(r, a, TRUE, cs, t)
     \/ \E a \in UserInputs, t \in Titles : PostsCreateStart(r, a, FALSE, <<>>, t)

PostsUpdate(r) ==
  /\ Admit(r)
  /\ \E id \in PostInputs, a \in UserInputs \cup {Absent}, t \in Titles \cup {Absent} :
       \/ \E cs \in CatIdSeqs : PostsUpdateStart(r, id, a, TRUE, cs, t)
       \/ PostsUpdateStart(r, id, a, FALSE, <<>>, t)

PostsRemove(r) ==
  /\ Admit(r)
  /\ \E id \in PostInputs : PostsRemoveStart(r, id)

PostsFindOne(r) ==
  /\ Admit(r)
  /\ \E id \in PostInputs : PostsFindOneStart(r, id)

\* The addresses and the names in use.
LiveEmails == {users[u].email : u \in DOMAIN users}

LiveNames == {categories[c].name : c \in DOMAIN categories}

\* A client gives an address a User has, or the next address not yet seen.
UsersCreate(r) ==
  /\ Admit(r)
  /\ \E email \in (LiveEmails \cup {nextUser}) \cap Emails : UsersCreateStart(r, email)

CategoriesCreate(r) ==
  /\ Admit(r)
  /\ \E name \in (LiveNames \cup {nextCat}) \cap Names : CategoriesCreateStart(r, name)

UsersUpdate(r) ==
  /\ Admit(r)
  /\ \E id \in UserInputs, email \in LiveEmails \cup {Absent} : UsersUpdateStart(r, id, email)

\* A client gives any address, any name.
UsersCreateAny(r) ==
  /\ Admit(r)
  /\ \E email \in Emails : UsersCreateStart(r, email)

CategoriesCreateAny(r) ==
  /\ Admit(r)
  /\ \E name \in Names : CategoriesCreateStart(r, name)

UsersUpdateAny(r) ==
  /\ Admit(r)
  /\ \E id \in UserInputs, email \in Emails : UsersUpdateStart(r, id, email)

CategoriesUpdateAny(r) ==
  /\ Admit(r)
  /\ \E id \in CatInputs, name \in Names : CategoriesUpdateStart(r, id, name)

UsersRemove(r) ==
  /\ Admit(r)
  /\ \E id \in UserInputs : UsersRemoveStart(r, id)

CategoriesUpdate(r) ==
  /\ Admit(r)
  /\ \E id \in CatInputs, name \in LiveNames \cup {Absent} : CategoriesUpdateStart(r, id, name)

CategoriesRemove(r) ==
  /\ Admit(r)
  /\ \E id \in CatInputs : CategoriesRemoveStart(r, id)

Next ==
  \E r \in Slots :
    \/ UsersCreate(r)
    \/ UsersCreateFindOne(r)
    \/ UsersCreateSave(r)
    \/ CategoriesCreate(r)
    \/ CategoriesCreateFindOne(r)
    \/ CategoriesCreateSave(r)
    \/ PostsCreate(r)
    \/ PostsCreateFindAuthor(r)
    \/ PostsCreateFindCategories(r)
    \/ PostsCreateSave(r)
    \/ PostsCreatePushAuthor(r)
    \/ PostsCreatePushCategories(r)
    \/ PostsCreatePopulate(r)
    \/ PostsUpdate(r)
    \/ PostsUpdateFindCategories(r)
    \/ PostsUpdateFindAuthor(r)
    \/ PostsUpdateFindPost(r)
    \/ PostsUpdatePullOldAuthor(r)
    \/ PostsUpdateAddNewAuthor(r)
    \/ PostsUpdatePullCategories(r)
    \/ PostsUpdatePushCategories(r)
    \/ PostsUpdateWrite(r)
    \/ PostsRemove(r)
    \/ PostsRemoveFindPost(r)
    \/ PostsRemoveDelete(r)
    \/ PostsRemovePullAuthor(r)
    \/ PostsRemovePullCategories(r)
    \/ UsersUpdate(r)
    \/ UsersUpdateFindUser(r)
    \/ UsersUpdateWrite(r)
    \/ UsersRemove(r)
    \/ UsersRemoveFindUser(r)
    \/ UsersRemovePullCategories(r)
    \/ UsersRemoveDeletePosts(r)
    \/ UsersRemoveDeleteUser(r)
    \/ CategoriesUpdate(r)
    \/ CategoriesUpdateFindCategory(r)
    \/ CategoriesUpdateWrite(r)
    \/ CategoriesRemove(r)
    \/ CategoriesRemoveFindCategory(r)
    \/ CategoriesRemovePullPosts(r)
    \/ CategoriesRemoveDeleteCategory(r)
    \/ Respond(r)

\* Requests executed one at a time, from the empty store.
Spec == Init /\ [][Next]_vars

\* Requests executed one at a time, where UsersService.remove may stop at any
\* of its store operations.
NextStop == Next \/ \E r \in Slots : UsersRemoveStops(r)

SpecStop == Init /\ [][NextStop]_vars

\* Overlapping requests.  The store is one that requests executed one at a
\* time leave behind: a User and two Categories, or two Users, two
\* Categories and a Post of User 1 in Category 1.
InitConc ==
  /\ \/ /\ users = Insert(<<>>, 1, [posts |-> <<>>, email |-> 1])
        /\ categories = [c \in 1 .. 2 |-> [posts |-> <<>>, name |-> c]]
        /\ posts = <<>>
        /\ nextUser = 2
        /\ nextPost = 1
     \/ /\ users = [u \in 1 .. 2 |-> [posts |-> IF u = 1 THEN <<1>> ELSE <<>>, email |-> u]]
        /\ categories = [c \in 1 .. 2 |-> [posts |-> IF c = 1 THEN <<1>> ELSE <<>>, name |-> c]]
        /\ posts = Insert(<<>>, 1, [title |-> 1, authorId |-> 1, categories |-> <<1>>, viewCount |-> 0])
        /\ nextUser = 3
        /\ nextPost = 2
  /\ nextCat = 3
  /\ req = [r \in Slots |-> Idle]
  /\ serial = FALSE
  /\ started = 0
  /\ returned = NoneReturned

SpecConc == InitConc /\ [][Next]_vars

\* Overlapping requests, any of which may end at a store operation that fails.
NextFaulty == Next \/ \E r \in Slots : StoreFails(r)

SpecFaulty == InitConc /\ [][NextFaulty]_vars

\* Overlapping requests of clients that give any address and any name, from
\* the empty store as well.
NextUnique ==
  \/ Next
  \/ \E r \in Slots :
       \/ UsersCreateAny(r)
       \/ UsersUpdateAny(r)
       \/ CategoriesCreateAny(r)
       \/ CategoriesUpdateAny(r)

InitUnique ==
  \/ InitConc
  \/ /\ users = <<>>
     /\ categories = <<>>
     /\ posts = <<>>
     /\ nextUser = 1
     /\ nextCat = 1
     /\ nextPost = 1
     /\ req = [r \in Slots |-> Idle]
     /\ serial = FALSE
     /\ started = 0
     /\ returned = NoneReturned

SpecUnique == InitUnique /\ [][NextUnique]_vars

\* Overlapping requests, PostsService.findOne among them.
NextViews ==
  \/ Next
  \/ \E r \in Slots :
       \/ PostsFindOne(r)
       \/ PostsFindOneFindPost(r)
       \/ PostsFindOneIncrement(r)

SpecViews == InitConc /\ [][NextViews]_vars

\* ================================================================ claims
\* No request is under way.
Quiet == \A r \in Slots : Quiescent(r)

Returned(r, op) == req[r].op = op /\ req[r].pc = "done"

\* Identifiers of Posts that were saved and exist no more.
DeletedPosts == (1 .. (nextPost - 1)) \ DOMAIN posts

\* C1: when PostsService.create returns for an existing author and n >= 1
\* existing categories, the author's posts list holds the new Post id exactly
\* once and so does the posts list of each of the n categories.
C1_CreateAttachesOnce ==
  \A r \in Slots :
    Returned(r, "createPost") =>
      /\ req[r].authorId \in DOMAIN users
      /\ Count(users[req[r].authorId].posts, req[r].id) = 1
      /\ Len(req[r].categoryIds) >= 1
      /\ \A c \in Range(req[r].categoryIds) :
           c \in DOMAIN categories /\ Count(categories[c].posts, req[r].id) = 1

C1_Witness ==
  \E r \in Slots :
    /\ Returned(r, "createPost")
    /\ Cardinality(Range(req[r].categoryIds)) = 2
    /\ \A c \in Range(req[r].categoryIds) : Count(categories[c].posts, req[r].id) = 1

\* C2: with no request under way, the author of every Post is an existing
\* User whose posts list holds the Post id.
C2_AuthorBackReference ==
  Quiet =>
    \A p \in DOMAIN posts :
      /\ posts[p].authorId \in DOMAIN users
      /\ p \in Range(users[posts[p].authorId].posts)

C2_Witness ==
  \E r \in Slots :
    /\ Returned(r, "updatePost")
    /\ req[r].authorId # Absent
    /\ req[r].authorId # req[r].existing.authorId
    /\ req[r].id \in DOMAIN posts
    /\ posts[req[r].id].authorId = req[r].authorId
    /\ Quiet

\* C3: with no request under way, every category of every Post is an existing
\* Category whose posts list holds the Post id.
C3_CategoryBackReference ==
  Quiet =>
    \A p \in DOMAIN posts :
      \A c \in Range(posts[p].categories) :
        c \in DOMAIN categories /\ p \in Range(categories[c].posts)

C3_Witness ==
  \E r \in Slots :
    /\ Returned(r, "updatePost")
    /\ req[r].hasCategoryIds
    /\ Range(req[r].categoryIds) \ Range(req[r].existing.categories) # {}
    /\ Range(req[r].existing.categories) \ Range(req[r].categoryIds) # {}
    /\ req[r].id \in DOMAIN posts
    /\ Quiet

\* C4: with no request under way, no posts list of a User or of a Category
\* holds the identifier of a deleted Post.
C4_NoDeletedPostListed ==
  Quiet =>
    /\ \A u \in DOMAIN users : Range(users[u].posts) \cap DeletedPosts = {}
    /\ \A c \in DOMAIN categories : Range(categories[c].posts) \cap DeletedPosts = {}

C4_Witness ==
  /\ Quiet
  /\ \E r \in Slots :
       /\ Returned(r, "removePost")
       /\ req[r].existing.authorId \in DOMAIN users
       /\ Range(req[r].existing.categories) \cap DOMAIN categories # {}

\* C5: with no request under way, the posts list of a User is exactly the set
\* of the Posts it authored, and the posts list of a Category is exactly the
\* set of the Posts that have it among their categories.
C5_ListsAreExact ==
  Quiet =>
    /\ \A u \in DOMAIN users :
         Range(users[u].posts) = {p \in DOMAIN posts : posts[p].authorId = u}
    /\ \A c \in DOMAIN categories :
         Range(categories[c].posts) = {p \in DOMAIN posts : c \in Range(posts[p].categories)}

C5_Witness ==
  /\ Quiet
  /\ \E r \in Slots :
       /\ Returned(r, "updatePost")
       /\ req[r].authorId # Absent
       /\ req[r].authorId # req[r].existing.authorId
       /\ req[r].existing.authorId \in DOMAIN users
       /\ req[r].hasCategoryIds
       /\ Range(req[r].existing.categories) \ Range(req[r].categoryIds) # {}
       /\ Range(req[r].existing.categories) \cap DOMAIN categories # {}

\* C6: when UsersService.remove returns, no Post of the removed User exists
\* and every identifier a Category lists is that of an existing Post of
\* another User.
C6_UserCascade ==
  \A r \in Slots :
    Returned(r, "removeUser") =>
      /\ req[r].postIds \cap DOMAIN posts = {}
      /\ \A p \in DOMAIN posts : posts[p].authorId # req[r].id
      /\ \A c \in DOMAIN categories :
           /\ Range(categories[c].posts) \cap req[r].postIds = {}
           /\ Range(categories[c].posts) \subseteq DOMAIN posts

C6_Witness ==
  \E r \in Slots :
    /\ Returned(r, "removeUser")
    /\ Cardinality(req[r].postIds) = 2
    /\ categories # <<>>

\* C7: when PostsService.update returns after changing the categories of a
\* Post, a Category that was dropped ({X, Y} to {Y, Z}: X) lists the Post no
\* more, and every Category of the new list, kept (Y) or added (Z), lists it
\* exactly once.
C7_ReconcileCategories ==
  \A r \in Slots :
    (Returned(r, "updatePost") /\ req[r].hasCategoryIds) =>
      /\ \A c \in Range(req[r].existing.categories) \ Range(req[r].categoryIds) :
           c \in DOMAIN categories => Count(categories[c].posts, req[r].id) = 0
      /\ \A c \in Range(req[r].categoryIds) :
           c \in DOMAIN categories /\ Count(categories[c].posts, req[r].id) = 1

C7_Witness ==
  \E r \in Slots :
    /\ Returned(r, "updatePost")
    /\ req[r].hasCategoryIds
    /\ \E x, y, z \in DOMAIN categories :
         /\ x # y /\ y # z /\ x # z
         /\ Range(req[r].existing.categories) = {x, y}
         /\ Range(req[r].categoryIds) = {y, z}
         /\ Count(categories[x].posts, req[r].id) = 0
         /\ Count(categories[y].posts, req[r].id) = 1
         /\ Count(categories[z].posts, req[r].id) = 1

\* C8: when PostsService.update returns after moving a Post from author A to
\* author B, A lists the Post no more and B lists it exactly once; an update
\* that names the author the Post already has never throws once it has read
\* the Post, and none of its steps changes any User's posts list.
C8_ReassignedOnce ==
  \A r \in Slots :
    (/\ Returned(r, "updatePost")
     /\ req[r].authorId # Absent
     /\ req[r].authorId # req[r].existing.authorId) =>
      /\ req[r].existing.authorId \in DOMAIN users
           => Count(users[req[r].existing.authorId].posts, req[r].id) = 0
      /\ req[r].authorId \in DOMAIN users
      /\ Count(users[req[r].authorId].posts, req[r].id) = 1

C8_RepeatStep ==
  \A r \in Slots :
    (/\ req[r].op = "updatePost"
     /\ req[r].pc \notin {"done", "error"}
     /\ req[r].existing # NoPost
     /\ req[r].authorId = req[r].existing.authorId) =>
      /\ users' = users
      /\ req'[r].pc # "error"

C8_Reassign == []C8_ReassignedOnce /\ [][C8_RepeatStep]_vars

C8_Witness ==
  \E r \in Slots :
    /\ Returned(r, "updatePost")
    /\ req[r].authorId = req[r].existing.authorId
    /\ ~req[r].hasCategoryIds
    /\ req[r].id \in DOMAIN posts
    /\ Count(users[req[r].authorId].posts, req[r].id) = 1
    /\ Cardinality(DOMAIN users) = 2

\* C9: no step of CategoriesService.remove deletes a Post or changes its
\* title or author, and a step changes the categories of a Post only by
\* taking the removed Category out; when it returns no Post has the removed
\* Category.
C9_Pruned ==
  \A r \in Slots :
    Returned(r, "removeCategory") =>
      \A p \in DOMAIN posts : req[r].id \notin Range(posts[p].categories)

C9_Frame ==
  \A r \in Slots :
    (req[r].op = "removeCategory" /\ req[r].pc \notin {"done", "error"}) =>
      /\ DOMAIN posts' = DOMAIN posts
      /\ \A p \in DOMAIN posts :
           /\ posts'[p].title = posts[p].title
           /\ posts'[p].authorId = posts[p].authorId
           /\ posts'[p].categories \in {posts[p].categories, Pull(posts[p].categories, req[r].id)}

C9_CategoryRemoveKeepsPosts == []C9_Pruned /\ [][C9_Frame]_vars

C9_Witness ==
  \E r \in Slots :
    /\ Returned(r, "removeCategory")
    /\ \E p \in (1 .. MaxPosts) \ req[r].todo :
         /\ p \in DOMAIN posts
         /\ Len(posts[p].categories) >= 1

\* C10: when two overlapping PostsService.create requests that name the same
\* existing Category have both returned, that Category lists each of the two
\* new Post ids exactly once.
C10_ConcurrentCreates ==
  \A r1, r2 \in Slots :
    (r1 # r2 /\ Returned(r1, "createPost") /\ Returned(r2, "createPost")) =>
      \A c \in Range(req[r1].categoryIds) \cap Range(req[r2].categoryIds) \cap DOMAIN categories :
        /\ Count(categories[c].posts, req[r1].id) = 1
        /\ Count(categories[c].posts, req[r2].id) = 1

C10_Witness ==
  /\ ~serial
  /\ \E r1, r2 \in Slots :
       /\ r1 # r2
       /\ Returned(r1, "createPost")
       /\ Returned(r2, "createPost")
       /\ \E c \in Range(req[r1].categoryIds) \cap Range(req[r2].categoryIds) \cap DOMAIN categories :
            {req[r1].id, req[r2].id} \subseteq Range(categories[c].posts)

\* The collections, without the counters of the identifiers.
collections == <<users, categories, posts>>

\* The errors of a malformed identifier or of a reference to no document.
Rejections ==
  {"BadRequest: invalid author", "BadRequest: invalid category", "NotFound: invalid post id",
   "BadRequest: author does not exist", "BadRequest: categories do not exist"}

\* A create or an update that is still verifying what it refers to.
Verifying(q) == q.op \in {"createPost", "updatePost"} /\ q.pc \in {"findAuthor", "findCategories"}

\* C11: a PostsService.create or PostsService.update that throws for a
\* malformed identifier or for an author or a category that does not exist
\* throws while it is still verifying, and no step it has taken until then,
\* the throwing one included, changes the users, posts or categories.
C11_Step ==
  \A r \in Slots :
    /\ (Verifying(req[r]) /\ req'[r] # req[r]) => collections' = collections
    /\ (/\ req[r].pc # "error"
        /\ req'[r].pc = "error"
        /\ req'[r].op \in {"createPost", "updatePost"}
        /\ req'[r].err \in Rejections) =>
         /\ req[r].pc = "idle" \/ Verifying(req[r])
         /\ collections' = collections

C11_RejectedWritesNothing == [][C11_Step]_vars

C11_Witness ==
  \E r \in Slots :
    /\ req[r].op = "createPost"
    /\ req[r].pc = "error"
    /\ req[r].err = "BadRequest: categories do not exist"
    /\ users # <<>>
    /\ categories # <<>>
    /\ posts # <<>>

\* C12: a PostsService.create whose category list is absent or empty throws
\* at once, and the step that throws changes no collection: a create that
\* goes on past its first step has a list of at least one category.
C12_Step ==
  \A r \in Slots :
    (req[r].pc = "idle" /\ req'[r].op = "createPost") =>
      IF req'[r].pc = "error"
      THEN store' = store
      ELSE req'[r].hasCategoryIds /\ Len(req'[r].categoryIds) >= 1

C12_EmptyCategoriesRejected == [][C12_Step]_vars

C12_Witness ==
  \E r \in Slots :
    /\ req[r] = Thrown("createPost", "BadRequest: at least one category")
    /\ users # <<>>
    /\ categories # <<>>

\* C13: when two overlapping PostsService.update requests on one Post have
\* both returned, a Category that both had to add lists the Post id at most
\* once.
C13_ConcurrentPushesOnce ==
  \A r1, r2 \in Slots :
    (/\ r1 # r2
     /\ Returned(r1, "updatePost")
     /\ Returned(r2, "updatePost")
     /\ req[r1].id = req[r2].id) =>
      \A c \in Range(CategoriesToActuallyAdd(req[r1].existing.categories, req[r1].categoryIds))
               \cap Range(CategoriesToActuallyAdd(req[r2].existing.categories, req[r2].categoryIds))
               \cap DOMAIN categories :
        Count(categories[c].posts, req[r1].id) <= 1

\* C14: when a PostsService.create or PostsService.update and an overlapping
\* UsersService.remove or CategoriesService.remove have both returned, the
\* author of every Post is an existing User and every category of every Post
\* is an existing Category.
C14_NoDanglingReference ==
  \A r1, r2 \in Slots :
    (/\ r1 # r2
     /\ req[r1].op \in {"createPost", "updatePost"}
     /\ req[r1].pc = "done"
     /\ req[r2].op \in {"removeUser", "removeCategory"}
     /\ req[r2].pc = "done") =>
      \A p \in DOMAIN posts :
        /\ posts[p].authorId \in DOMAIN users
        /\ Range(posts[p].categories) \subseteq DOMAIN categories

\* What a request that gives no author leaves as it is: the title is not
\* given or is the Post's, the categories are not given or are the Post's.
SameData(q, doc) ==
  /\ q.title = Absent \/ q.title = doc.title
  /\ ~q.hasCategoryIds
       \/ (Range(q.categoryIds) = Range(doc.categories) /\ Len(q.categoryIds) = Len(doc.categories))

\* C16 as stated: a PostsService.update never comes to its write when every
\* field it gives, the author and the categories included, is the Post's.
C16_NoChangeNeverWritten ==
  \A r \in Slots :
    At(r, "updatePost", "write") =>
      ~(/\ req[r].authorId \in {Absent, req[r].existing.authorId}
        /\ SameData(req[r], req[r].existing))

\* C16, amended: a PostsService.update that gives no authorId and whose
\* other fields are the Post's throws Conflict at the step that reads the
\* Post, and that step changes nothing in the store; a PostsService.update
\* that throws the no-change Conflict is one that gave no authorId.
C16_Step ==
  \A r \in Slots :
    /\ (/\ At(r, "updatePost", "findPost")
        /\ req'[r] # req[r]
        /\ req[r].id \in DOMAIN posts
        /\ req[r].authorId = Absent
        /\ SameData(req[r], posts[req[r].id])) =>
         /\ req'[r] = Thrown("updatePost", "Conflict: no changes detected")
         /\ store' = store
    /\ (/\ req[r].op = "updatePost"
        /\ req[r].pc \notin {"error", "done"}
        /\ req'[r] = Thrown("updatePost", "Conflict: no changes detected")) =>
         req[r].authorId = Absent

C16_NoChangeWithoutAuthorRejected == [][C16_Step]_vars

C16_Witness ==
  \E r \in Slots :
    /\ req[r] = Thrown("updatePost", "Conflict: no changes detected")
    /\ \E p \in DOMAIN posts : Len(posts[p].categories) = 2

\* A request that ended at a store operation that failed.
FailedAt(r, op, pcs) ==
  /\ req[r].op = op
  /\ req[r].pc = "error"
  /\ req[r].err = "StoreError"
  /\ req[r].failedAt \in pcs

\* C15: a PostsService.create never ends in an error at a push that follows
\* its save, and a PostsService.remove never ends in an error at a pull that
\* follows its delete: the caller gets the Post.
C15_BackReferenceFailureHidden ==
  \A r \in Slots :
    /\ ~FailedAt(r, "createPost", {"pushAuthor", "pushCategories"})
    /\ ~FailedAt(r, "removePost", {"pullAuthor", "pullCategories"})

\* C18: in PostsService.remove the Post is deleted before any pull: from
\* the delete on, also when the request ended at a pull that failed, the
\* Post does not exist, and a step of the request that changes a User's or a
\* Category's posts list is taken after the delete, with the Post gone.
C18_Gone ==
  \A r \in Slots :
    (\/ req[r].op = "removePost" /\ req[r].pc \in {"pullAuthor", "pullCategories", "done"}
     \/ FailedAt(r, "removePost", {"pullAuthor", "pullCategories"})) =>
      req[r].id \notin DOMAIN posts

C18_Step ==
  \A r \in Slots :
    (/\ req[r].op = "removePost"
     /\ req'[r] # req[r]
     /\ users' # users \/ categories' # categories) =>
      /\ req[r].pc \in {"pullAuthor", "pullCategories"}
      /\ req[r].id \notin DOMAIN posts
      /\ posts' = posts

C18_DeletedBeforePulls == []C18_Gone /\ [][C18_Step]_vars

C18_Witness ==
  \E r \in Slots :
    /\ FailedAt(r, "removePost", {"pullCategories"})
    /\ req[r].id \notin DOMAIN posts
    /\ \E c \in DOMAIN categories : req[r].id \in Range(categories[c].posts)
    /\ \A u \in DOMAIN users : req[r].id \notin Range(users[u].posts)

\* C20: a PostsService.update never ends at a failed pull from the old
\* author, nor at a failed pull from the dropped categories when it has
\* categories to add: the add to the new author and the push to the added
\* categories are attempted all the same.
C20_SecondOperationAttempted ==
  \A r \in Slots :
    /\ ~FailedAt(r, "updatePost", {"pullOldAuthor"})
    /\ FailedAt(r, "updatePost", {"pullCategories"}) =>
         Len(CategoriesToActuallyAdd(req[r].existing.categories, req[r].categoryIds)) = 0

\* The cascade of UsersService.remove is complete for a User and the Posts
\* the request read: no Post of the User exists and no Category lists one.
Cascaded(q) ==
  /\ \A p \in DOMAIN posts : posts[p].authorId # q.id
  /\ q.postIds \cap DOMAIN posts = {}
  /\ \A c \in DOMAIN categories : Range(categories[c].posts) \cap q.postIds = {}

\* C19: in UsersService.remove the User is deleted last.  Wherever the
\* request is or has stopped, the User exists or the cascade is complete; a
\* request whose User exists ends by returning or by stopping, never by
\* throwing; and when a remove returns, the first run or one made again after
\* a stop, the User is gone, the cascade is complete and every Category lists
\* existing Posts only.
C19_UserLast ==
  \A r \in Slots :
    (req[r].op = "removeUser" /\ req[r].pc # "idle" /\ req[r].id # Absent) =>
      req[r].id \in DOMAIN users \/ Cascaded(req[r])

C19_Returned ==
  \A r \in Slots :
    Returned(r, "removeUser") =>
      /\ req[r].id \notin DOMAIN users
      /\ Cascaded(req[r])
      /\ \A c \in DOMAIN categories : Range(categories[c].posts) \subseteq DOMAIN posts

C19_Step ==
  \A r \in Slots :
    (/\ req[r].op = "removeUser"
     /\ req[r].pc \in {"findUser", "pullCategories", "deletePosts", "deleteUser"}
     /\ req[r].id \in DOMAIN users
     /\ req'[r] # req[r]) =>
      req'[r].pc # "error" \/ req'[r].err = "StoreError"

C19_UserDeletedLast == [](C19_UserLast /\ C19_Returned) /\ [][C19_Step]_vars

C19_Witness ==
  \E r \in Slots :
    /\ At(r, "removeUser", "deleteUser")
    /\ req[r].id \in DOMAIN users
    /\ req[r].postIds # {}
    /\ Range(users[req[r].id].posts) \ req[r].postIds # {}
    /\ categories # <<>>

\* C17: no two Users have the same e-mail address and no two Categories the
\* same name, whatever addresses and names overlapping creates and updates
\* give; and the save of a create or the write of an update whose address or
\* name another document has throws and leaves the collection as it is.
C17_Unique ==
  /\ \A u1, u2 \in DOMAIN users : u1 # u2 => users[u1].email # users[u2].email
  /\ \A c1, c2 \in DOMAIN categories : c1 # c2 => categories[c1].name # categories[c2].name

C17_Step ==
  \A r \in Slots :
    (/\ req'[r] # req[r]
     /\ \/ At(r, "createUser", "save") /\ EmailTaken(req[r].email, Absent)
        \/ At(r, "updateUser", "write") /\ EmailTaken(req[r].email, req[r].id)
        \/ At(r, "createCategory", "save") /\ NameTaken(req[r].name, Absent)
        \/ At(r, "updateCategory", "write") /\ NameTaken(req[r].name, req[r].id)) =>
      /\ req'[r].pc = "error"
      /\ users' = users
      /\ categories' = categories

C17_UniqueEmailsAndNames == []C17_Unique /\ [][C17_Step]_vars

C17_Witness ==
  /\ \E r \in Slots : req[r] = Thrown("updateUser", "DuplicateKey")
  /\ \E r \in Slots : Returned(r, "updateCategory") /\ req[r].name # req[r].id
  /\ Cardinality(DOMAIN users) = 2
  /\ Cardinality(DOMAIN categories) = 2

\* The steps of a PostsService.update that gave categoryIds, from the read of
\* the Post on, with the Post as the request has read it.
C21_Reconciling(r) ==
  /\ req[r].op = "updatePost"
  /\ req[r].hasCategoryIds
  /\ req'[r] # req[r]
  /\ \/ req[r].pc = "findPost" /\ req[r].id \in DOMAIN posts
     \/ req[r].pc \in {"pullOldAuthor", "addNewAuthor", "pullCategories", "pushCategories", "write"}

C21_Read(r) == IF req[r].pc = "findPost" THEN posts[req[r].id] ELSE req[r].existing

\* The bulk update a request goes on to: the pull when it has a category to
\* remove, else the push when it has one to add, else neither.
C21_Issues(r, toRemove, toAdd) ==
  IF toRemove # {} THEN req'[r].pc = "pullCategories" /\ req'[r].todo = toRemove
  ELSE IF toAdd # {} THEN req'[r].pc = "pushCategories" /\ req'[r].todo = toAdd
  ELSE req'[r].pc \in {"write", "error"}

\* C21: a PostsService.update given the categories the Post has, in any
\* order, modifies no Category document at any of its steps, whatever else
\* of the Post it changes; a request with a category to remove issues the
\* pull, and one with a category to add issues the push, also when the other
\* of the two has nothing to do.
C21_Step ==
  \A r \in Slots :
    C21_Reconciling(r) =>
      LET toRemove == Range(C21_Read(r).categories) \ Range(req[r].categoryIds)
          toAdd == Range(req[r].categoryIds) \ Range(C21_Read(r).categories)
      IN /\ (toRemove = {} /\ toAdd = {}) => categories' = categories
         /\ (req[r].pc \in {"findPost", "addNewAuthor"} /\ req'[r].pc # "pullOldAuthor") =>
              C21_Issues(r, toRemove, toAdd)
         /\ (req[r].pc = "pullCategories" /\ req'[r].pc # "pullCategories") =>
              C21_Issues(r, {}, toAdd)

C21_EqualSetTouchesNoCategory == [][C21_Step]_vars

C21_Witness ==
  \E r \in Slots :
    /\ Returned(r, "updatePost")
    /\ req[r].hasCategoryIds
    /\ req[r].id \in DOMAIN posts
    /\ Len(req[r].existing.categories) = 2
    /\ Range(req[r].categoryIds) = Range(req[r].existing.categories)
    /\ req[r].categoryIds # req[r].existing.categories
    /\ posts[req[r].id].title # req[r].existing.title
    /\ posts[req[r].id].categories = req[r].categoryIds

\* A PostsService.create or PostsService.update takes the step that verifies
\* its categories.
C22_Validating(r) ==
  /\ req[r].op \in {"createPost", "updatePost"}
  /\ req[r].pc = "findCategories"
  /\ req'[r] # req[r]

C22_Passes(r) == req'[r].pc # "error"

\* C22 as stated: the request passes exactly when as many Categories are found
\* as the list has distinct identifiers.
C22_DistinctStep ==
  \A r \in Slots :
    C22_Validating(r) =>
      (C22_Passes(r) <=>
         Cardinality(Range(req[r].categoryIds) \cap DOMAIN categories)
           = Cardinality(Range(req[r].categoryIds)))

C22_SetBasedValidation == [][C22_DistinctStep]_vars

\* C22, amended: the request passes exactly when every identifier of the list
\* is that of a Category and none is repeated; a list with an identifier of no
\* Category fails, and so does a list that repeats an identifier.
C22_LengthStep ==
  \A r \in Slots :
    C22_Validating(r) =>
      (C22_Passes(r) <=>
         /\ \A i \in 1 .. Len(req[r].categoryIds) : req[r].categoryIds[i] \in DOMAIN categories
         /\ \A i, j \in 1 .. Len(req[r].categoryIds) :
              i # j => req[r].categoryIds[i] # req[r].categoryIds[j])

C22_LengthBasedValidation == [][C22_LengthStep]_vars

C22_Witness ==
  \E r \in Slots :
    /\ req[r].op \in {"createPost", "updatePost"}
    /\ req[r].pc = "findCategories"
    /\ Len(req[r].categoryIds) = 2
    /\ req[r].categoryIds[1] = req[r].categoryIds[2]
    /\ req[r].categoryIds[1] \in DOMAIN categories

\* The Categories that list Post p.
C23_Listing(p) == {c \in DOMAIN categories : p \in Range(categories[c].posts)}

\* The back-references of Post p are not those its categories field implies:
\* a Category lists the Post and is not in the field, or is in the field and
\* does not list the Post.
C23_Diverged(p) ==
  \/ \E c \in C23_Listing(p) : c \notin Range(posts[p].categories)
  \/ \E c \in Range(posts[p].categories) : c \notin C23_Listing(p)

\* Two PostsService.update requests of one Post, each giving categoryIds, have
\* both returned, and both had read the same categories of the Post; no other
\* request was admitted.
C23_BothReadSame(r1, r2) ==
  /\ r1 # r2
  /\ started = 2
  /\ Returned(r1, "updatePost") /\ Returned(r2, "updatePost")
  /\ req[r1].id = req[r2].id
  /\ req[r1].id \in DOMAIN posts
  /\ req[r1].hasCategoryIds /\ req[r2].hasCategoryIds
  /\ req[r1].existing.categories = req[r2].existing.categories

\* C23: when two overlapping PostsService.update requests of one Post that
\* both read its categories E and asked for A and for B have returned, and
\* they are the only requests, the
\* categories field is A or B, the one written last, while the Categories
\* that list the Post are those of E that both kept and those that either
\* added; whenever the field written last is not that set, the
\* back-references differ from what the field implies.
C23_StaleReadsDiverge ==
  \A r1, r2 \in Slots :
    C23_BothReadSame(r1, r2) =>
      LET p == req[r1].id
          E == Range(req[r1].existing.categories)
          A == Range(req[r1].categoryIds)
          B == Range(req[r2].categoryIds)
          merged == (E \cap A \cap B) \cup (A \ E) \cup (B \ E)
      IN /\ posts[p].categories \in {req[r1].categoryIds, req[r2].categoryIds}
         /\ C23_Listing(p) = merged
         /\ Range(posts[p].categories) # merged => C23_Diverged(p)

C23_Witness ==
  \E r1, r2 \in Slots :
    /\ C23_BothReadSame(r1, r2)
    /\ Range(req[r1].categoryIds) # Range(req[r1].existing.categories)
    /\ Range(req[r2].categoryIds) # Range(req[r2].existing.categories)
    /\ req[r1].categoryIds # <<>> /\ req[r2].categoryIds # <<>>
    /\ C23_Diverged(req[r1].id)

\* C24: when a PostsService.update that gave an author or categories and an
\* overlapping PostsService.remove of the same Post, or UsersService.remove of
\* the Post's author, have both returned, no posts list of a User or of a
\* Category holds the identifier of a deleted Post.
C24_NoDeletedPostAfterRace ==
  \A r1, r2 \in Slots :
    (/\ r1 # r2
     /\ Returned(r1, "updatePost")
     /\ req[r1].authorId # Absent \/ req[r1].hasCategoryIds
     /\ \/ Returned(r2, "removePost") /\ req[r2].id = req[r1].id
        \/ Returned(r2, "removeUser") /\ req[r2].id = req[r1].existing.authorId) =>
      \A d \in DeletedPosts :
        /\ \A u \in DOMAIN users : d \notin Range(users[u].posts)
        /\ \A c \in DOMAIN categories : d \notin Range(categories[c].posts)

\* C25 as stated: every existing Post has at least one category.
C25_NonEmptyCategories ==
  \A p \in DOMAIN posts : posts[p].categories # <<>>

\* The step is the pull of CategoriesService.remove, or the write of a
\* PostsService.update that was given an empty categoryIds list.
C25_Emptying ==
  \E r \in Slots :
    /\ req'[r] # req[r]
    /\ \/ At(r, "removeCategory", "pullPosts")
       \/ At(r, "updatePost", "write") /\ req[r].hasCategoryIds /\ req[r].categoryIds = <<>>

\* C25, amended: a Post has at least one category when it is saved, and the
\* only steps that leave an existing Post without a category are the pull of
\* CategoriesService.remove and the write of a PostsService.update given an
\* empty categoryIds list.
C25_Step ==
  \A p \in DOMAIN posts' :
    IF p \in DOMAIN posts
    THEN (posts[p].categories # <<>> /\ posts'[p].categories = <<>>) => C25_Emptying
    ELSE posts'[p].categories # <<>>

C25_EmptiedOnlyByRemoveOrEmptyList == [][C25_Step]_vars

C25_Witness ==
  \E r \in Slots, p \in DOMAIN posts :
    /\ Returned(r, "removeCategory")
    /\ posts[p].categories = <<>>
    /\ req[r].id \notin DOMAIN categories

\* The counter of every Post is the number of findOne calls that returned it.
C26_Counted ==
  \A p \in DOMAIN posts : posts[p].viewCount = returned[p]

\* A findOne that returns adds exactly one to the counter of its Post and
\* changes nothing else in the store; a findOne that throws, at its
\* validation, at its read or at an increment that finds the Post deleted,
\* leaves the store as it is.
C26_Step ==
  \A r \in Slots :
    /\ (At(r, "findOnePost", "increment") /\ req'[r].pc = "done") =>
         /\ req[r].id \in DOMAIN posts
         /\ posts' = [posts EXCEPT ![req[r].id].viewCount = posts[req[r].id].viewCount + 1]
         /\ <<users, categories, nextUser, nextCat, nextPost>>' = <<users, categories, nextUser, nextCat, nextPost>>
    /\ (req[r].pc # "error" /\ req'[r].op = "findOnePost" /\ req'[r].pc = "error") =>
         store' = store

\* C26: a Post's viewCount is 0 when the Post is saved and is at all times
\* the number of PostsService.findOne calls that returned the Post, also when
\* calls overlap; each such call adds exactly one, and a findOne that ends
\* with not-found creates no document and changes no counter.
C26_ViewCountCountsReturns == []C26_Counted /\ [][C26_Step]_vars

C26_Witness ==
  \E p \in DOMAIN posts :
    /\ posts[p].viewCount = 2
    /\ \A r \in Slots : Returned(r, "findOnePost") /\ req[r].id = p

====
